---- MODULE Spec2Model ----
(***************************************************************************)
(* The four models of models.py (PerceptronModel, RegressionModel,        *)
(* DigitClassificationModel, LanguageIDModel) as one state machine.  A     *)
(* behaviour is the life of one model instance: it is constructed (Init), *)
(* then run / get_prediction / get_loss / train are called on it.  train   *)
(* is broken into its loop steps, so that the order of loss, gradient,    *)
(* update and convergence test is visible.                                *)
(*                                                                         *)
(* The perceptron's weights and examples are integer vectors and are      *)
(* computed exactly.  The parameters of the three networks are tracked    *)
(* by version (the number of updates each has received); the tensors of   *)
(* the external library (nn) are represented by their shapes.  Losses     *)
(* are in hundredths, accuracies in thousandths.                          *)
(***************************************************************************)
EXTENDS Integers, Sequences, FiniteSets, TLC

VARIABLES kind, w, examples, nExamples, batch_size, ver, pc, idx, nBatches,
          count, losses, sumSq, lossSnap, gradient, gi, updLog, lastAcc,
          verAtAcc, iterArg, itersSinceEval, firstRows, runIn, runOut,
          predX, predOut, passUpd, batchesDone, epochsRun

vars == <<kind, w, examples, nExamples, batch_size, ver, pc, idx, nBatches,
          count, losses, sumSq, lossSnap, gradient, gi, updLog, lastAcc,
          verAtAcc, iterArg, itersSinceEval, firstRows, runIn, runOut,
          predX, predOut, passUpd, batchesDone, epochsRun>>

----------------------------------------------------------------------------
(* Bounds of the model *)

\* longest perceptron dataset
MaxExamples == 2
\* largest number of rows of an input batch given to run / get_loss
MaxRows == 2
\* longest word given to LanguageIDModel.run
MaxWordLen == 2
\* largest dataset (dataset.x.shape[0]) of the three networks
MaxN == 10
\* epochs a train call of a network may run before the model stops following it
MaxEpochs == 2

(* Program constants *)

\* PerceptronModel(dimensions): the docstring's example, dimensions=2
Dim == 2
\* RegressionModel: if losses / dataset.x.shape[0] < 0.02 (hundredths)
LossThreshold == 2
\* DigitClassificationModel: get_validation_accuracy() >= 0.975 (thousandths)
DigitThreshold == 975
\* LanguageIDModel: get_validation_accuracy() >= 0.83 (thousandths)
LanguageThreshold == 830
\* self.alpha = -0.01 (hundredths)
Alpha == -1
\* DigitClassificationModel: self.batch_size = 5
DigitBatchSize == 5

Kinds == {"Perceptron", "Regression", "Digit", "Language"}

\* the data points the perceptron is given
Points == {<<0, 0>>, <<1, 0>>, <<0, 1>>, <<1, 1>>, <<-1, -1>>}
Labels == {1, -1}
\* the weights nn.Parameter(1, dimensions) may start with
InitWeights == {<<0, 0>>, <<1, 0>>, <<0, -1>>}
\* squared errors of one example (hundredths)
ErrValues == {0, 6}
\* validation accuracies the dataset may report (thousandths)
AccValues == {829, 830, 974, 975}

None == [rows |-> 0, len |-> 0]
NoOut == [shape |-> <<0, 0>>, in |-> None, params |-> <<>>]
NoPoint == <<>>

----------------------------------------------------------------------------
(* Arithmetic helpers *)

RECURSIVE SumSeq(_)
SumSeq(s) == IF s = <<>> THEN 0 ELSE Head(s) + SumSeq(Tail(s))

RECURSIVE Factorial(_)
Factorial(n) == IF n <= 1 THEN 1 ELSE n * Factorial(n - 1)

\* losses are kept in units of 1 / LossScale hundredths, so that the mean of
\* a batch of up to MaxRows squared errors, halved, is an integer
LossScale == 2 * Factorial(MaxRows)

----------------------------------------------------------------------------
(* The external library nn and the dataset objects *)

\* nn.DotProduct(x, w) of a 1 x d input and the 1 x d weights, as_scalar
DotProduct(x, wv) == SumSeq([i \in 1..Len(x) |-> x[i] * wv[i]])

\* Parameter.update(direction, multiplier): data += multiplier * direction
ParameterUpdate(wv, direction, multiplier) ==
    [i \in 1..Len(wv) |-> wv[i] + multiplier * direction[i]]

\* shapes of the nodes the operations return; <<0, 0>> is a shape error
BadShape == <<0, 0>>
LinearShape(a, m) == IF a[2] = m[1] THEN <<a[1], m[2]>> ELSE BadShape
AddBiasShape(a, b) == IF b = <<1, a[2]>> THEN a ELSE BadShape
AddShape(a, b) == IF a = b THEN a ELSE BadShape
ReLUShape(a) == a
DotProductShape(x, wshape) ==
    IF wshape[1] = 1 /\ x[2] = wshape[2] THEN <<x[1], 1>> ELSE BadShape

\* as_scalar(nn.SquareLoss(a, b)): the mean over the batch of the squared
\* errors, halved; errs are the squared errors of the batch's examples
SquareLossScalar(errs) == (SumSeq(errs) * LossScale) \div (2 * Len(errs))

\* dataset.iterate_once(b) over n examples: the number of batches it yields,
\* -1 when the dataset rejects the batch size
IterateOnce(b, n) == IF b > 0 /\ n % b = 0 THEN n \div b ELSE -1

\* nn.gradients(loss, params): one gradient per parameter, in the order of
\* params, each of the parameter values the loss was computed from
Gradients(snap, params) ==
    [i \in 1..Len(params) |-> [param |-> params[i], snap |-> snap]]

----------------------------------------------------------------------------
(* models.py *)

\* the parameters each __init__ creates, in the order train lists them
ParamShapes(k) ==
    CASE k = "Perceptron" -> << <<1, Dim>> >>
      [] k = "Regression" -> << <<1, 400>>, <<1, 400>>, <<400, 1>>, <<1, 1>> >>
      [] k = "Digit"      -> << <<784, 100>>, <<1, 100>>, <<100, 10>>, <<1, 10>> >>
      [] k = "Language"   -> << <<47, 100>>, <<100, 100>>, <<100, 5>> >>

NumParams(k) == Len(ParamShapes(k))

\* origin = [self.w_1, self.b_1, self.w_2, self.b_2]
Origin(k) == [i \in 1..NumParams(k) |-> i]

\* the batch_size attribute set by __init__
InitBatchSize(k) == IF k = "Digit" THEN DigitBatchSize ELSE 0

\* columns of an input row of each model
InputCols(k) ==
    CASE k = "Perceptron" -> Dim
      [] k = "Regression" -> 1
      [] k = "Digit"      -> 784
      [] k = "Language"   -> 47

\* PerceptronModel.run
PerceptronRunShape(r) == DotProductShape(<<r, Dim>>, ParamShapes("Perceptron")[1])

\* RegressionModel.run and DigitClassificationModel.run: two layers
TwoLayerRunShape(k, r) ==
    LET p == ParamShapes(k)
        first_bias == ReLUShape(AddBiasShape(LinearShape(<<r, InputCols(k)>>, p[1]), p[2]))
    IN  AddBiasShape(LinearShape(first_bias, p[3]), p[4])

\* LanguageIDModel.run: the hidden state after the first i characters
RECURSIVE LanguageHidden(_, _)
LanguageHidden(r, i) ==
    LET p == ParamShapes("Language")
        x == <<r, InputCols("Language")>>
    IN  IF i = 1
        THEN ReLUShape(LinearShape(x, p[1]))
        ELSE ReLUShape(AddShape(LinearShape(x, p[1]),
                                LinearShape(LanguageHidden(r, i - 1), p[2])))

\* variant: the hidden state is returned without the projection by w_3
LanguageRunShapeNoProjection(r, L) == LanguageHidden(r, L)

\* LanguageIDModel.run
LanguageRunShape(r, L) ==
    LinearShape(LanguageHidden(r, L), ParamShapes("Language")[3])

\* the shape of the node run returns for an input of r rows (L characters)
RunShape(k, r, L) ==
    CASE k = "Perceptron" -> PerceptronRunShape(r)
      [] k = "Regression" -> TwoLayerRunShape(k, r)
      [] k = "Digit"      -> TwoLayerRunShape(k, r)
      [] k = "Language"   -> LanguageRunShape(r, L)

\* run's first statement in RegressionModel and LanguageIDModel:
\*   if self.batch_size == 0: self.batch_size = x.data.shape[0]
RunBatchSize(k, b, r) ==
    IF k \in {"Regression", "Language"} /\ b = 0 THEN r ELSE b

\* variant: a score of exactly 0 is predicted as -1
get_prediction_strict(wv, x) == IF DotProduct(x, wv) > 0 THEN 1 ELSE -1

\* PerceptronModel.get_prediction
get_prediction(wv, x) == IF DotProduct(x, wv) >= 0 THEN 1 ELSE -1

\* variant: the elif branch does not count its correction
PerceptronStepNoCount(wv, ex) ==
    IF get_prediction(wv, ex.x) = -1 /\ ex.y = 1
    THEN [w |-> ParameterUpdate(wv, ex.x, 1), count |-> 1, updates |-> 1]
    ELSE IF get_prediction(wv, ex.x) = 1 /\ ex.y = -1
         THEN [w |-> ParameterUpdate(wv, ex.x, -1), count |-> 0, updates |-> 1]
         ELSE [w |-> wv, count |-> 0, updates |-> 0]

\* variant: only examples of label +1 are corrected
PerceptronStepNoElif(wv, ex) ==
    IF get_prediction(wv, ex.x) = -1 /\ ex.y = 1
    THEN [w |-> ParameterUpdate(wv, ex.x, 1), count |-> 1, updates |-> 1]
    ELSE [w |-> wv, count |-> 0, updates |-> 0]

\* the body of PerceptronModel.train's for loop on one example: the weights
\* after it, what it adds to count, and the Parameter.update calls it makes
PerceptronStep(wv, ex) ==
    IF get_prediction(wv, ex.x) = -1 /\ ex.y = 1
    THEN [w |-> ParameterUpdate(wv, ex.x, 1), count |-> 1, updates |-> 1]
    ELSE IF get_prediction(wv, ex.x) = 1 /\ ex.y = -1
         THEN [w |-> ParameterUpdate(wv, ex.x, -1), count |-> 1, updates |-> 1]
         ELSE [w |-> wv, count |-> 0, updates |-> 0]

\* variant: the loop is left after its first batch
ForExhaustedEarly(i, nb) == i >= 1 \/ i >= nb

\* the for loop over dataset.iterate_once(...) ends when i of nb batches
\* have been consumed
ForExhausted(i, nb) == i >= nb

\* variant: every parameter is updated with the first gradient
UpdateGradIndexFirst(i) == 1

\* origin[i].update(gradient[i], self.alpha): the gradient used for origin[i]
UpdateGradIndex(i) == i

\* variant: the digit model tests the language model's threshold
ConvergedOneThreshold(k, c, l, n, acc) ==
    CASE k = "Perceptron" -> c = 0
      [] k = "Regression" -> l < LossThreshold * n * LossScale
      [] k = "Digit"      -> acc >= LanguageThreshold
      [] k = "Language"   -> acc >= LanguageThreshold

\* the test that ends train's while loop
Converged(k, c, l, n, acc) ==
    CASE k = "Perceptron" -> c = 0
      [] k = "Regression" -> l < LossThreshold * n * LossScale
      [] k = "Digit"      -> acc >= DigitThreshold
      [] k = "Language"   -> acc >= LanguageThreshold

----------------------------------------------------------------------------
(* The state after construction *)

Datasets == UNION {[1..n -> [x : Points, y : Labels]] : n \in 0..MaxExamples}

Init ==
    /\ kind \in Kinds
    /\ IF kind = "Perceptron"
       THEN /\ w \in InitWeights
            /\ examples \in Datasets
            /\ nExamples = Len(examples)
       ELSE /\ w = <<>>
            /\ examples = <<>>
            /\ nExamples \in 1..MaxN
    /\ batch_size = InitBatchSize(kind)
    /\ ver = [i \in 1..NumParams(kind) |-> 0]
    /\ pc = "idle"
    /\ idx = 0
    /\ nBatches = 0
    /\ count = 0
    /\ losses = 0
    /\ sumSq = 0
    /\ lossSnap = <<>>
    /\ gradient = <<>>
    /\ gi = 0
    /\ updLog = <<>>
    /\ lastAcc = 0
    /\ verAtAcc = <<>>
    /\ iterArg = -1
    /\ itersSinceEval = 0
    /\ firstRows = 0
    /\ runIn = None
    /\ runOut = NoOut
    /\ predX = NoPoint
    /\ predOut = 0
    /\ passUpd = 0
    /\ batchesDone = 0
    /\ epochsRun = 0

Callable == pc \in {"idle", "done"}

trainVars == <<idx, nBatches, count, losses, sumSq, lossSnap, gradient, gi,
               updLog, lastAcc, verAtAcc, iterArg, itersSinceEval, passUpd,
               batchesDone, epochsRun>>

----------------------------------------------------------------------------
(* Calls made on the model from outside train *)

\* the forward pass self.run(x) on an input of r rows (a word of L characters
\* for LanguageIDModel), as run and get_loss both execute it
Forward(r, L) ==
    /\ Callable
    /\ L = 1 \/ kind = "Language"
    /\ batch_size' = RunBatchSize(kind, batch_size, r)
    /\ firstRows' = IF firstRows = 0 THEN r ELSE firstRows
    /\ runIn' = [rows |-> r, len |-> L]
    /\ runOut' = [shape |-> RunShape(kind, r, L), in |-> runIn',
                  params |-> <<w, ver>>]
    /\ UNCHANGED <<kind, w, examples, nExamples, ver, pc, predX, predOut>>
    /\ UNCHANGED <<idx, nBatches, count, losses, sumSq, gradient, gi,
                   updLog, lastAcc, verAtAcc, iterArg, itersSinceEval,
                   passUpd, batchesDone, epochsRun>>

\* run(x)
Run(r, L) ==
    /\ Forward(r, L)
    /\ UNCHANGED lossSnap

\* get_loss(x, y): a loss node over self.run(x), of the current parameters
GetLoss(r, L) ==
    /\ kind # "Perceptron"
    /\ Forward(r, L)
    /\ lossSnap' = ver

\* PerceptronModel.get_prediction(x)
GetPrediction(x) ==
    /\ Callable
    /\ kind = "Perceptron"
    /\ predX' = x
    /\ predOut' = get_prediction(w, x)
    /\ UNCHANGED <<kind, w, examples, nExamples, batch_size, ver, pc,
                   firstRows, runIn, runOut>>
    /\ UNCHANGED trainVars

\* train(dataset) is entered; the records of the run and get_prediction
\* calls made before it are dropped
TrainCall ==
    /\ Callable
    /\ kind # "Perceptron" => epochsRun < MaxEpochs
    /\ pc' = IF kind = "Perceptron" THEN "while" ELSE "epoch"
    /\ count' = IF kind = "Perceptron" THEN 1 ELSE count
    /\ itersSinceEval' = 0
    /\ runIn' = None
    /\ runOut' = NoOut
    /\ predX' = NoPoint
    /\ predOut' = 0
    /\ lossSnap' = <<>>
    /\ UNCHANGED <<kind, w, examples, nExamples, batch_size, ver, idx,
                   nBatches, losses, sumSq, gradient, gi, updLog,
                   lastAcc, verAtAcc, iterArg, firstRows, passUpd,
                   batchesDone, epochsRun>>

----------------------------------------------------------------------------
(* PerceptronModel.train *)

\* while count != 0: count = 0; for data in dataset.iterate_once(1)
PerceptronWhile ==
    /\ kind = "Perceptron"
    /\ pc = "while"
    /\ IF Converged(kind, count, losses, nExamples, lastAcc)
       THEN /\ pc' = "done"
            /\ itersSinceEval' = 0
            /\ UNCHANGED <<count, idx, nBatches, iterArg, passUpd, epochsRun>>
       ELSE /\ count' = 0
            /\ iterArg' = 1
            /\ nBatches' = IterateOnce(1, nExamples)
            /\ idx' = 0
            /\ passUpd' = 0
            /\ itersSinceEval' = 1
            /\ epochsRun' = IF epochsRun < MaxEpochs THEN epochsRun + 1 ELSE epochsRun
            /\ pc' = IF ForExhausted(0, nBatches') THEN "while" ELSE "for"
    /\ UNCHANGED <<kind, w, examples, nExamples, batch_size, ver, losses,
                   sumSq, lossSnap, gradient, gi, updLog, lastAcc, verAtAcc,
                   firstRows, runIn, runOut, predX, predOut, batchesDone>>

\* the body of the for loop on the next example
PerceptronVisit ==
    /\ kind = "Perceptron"
    /\ pc = "for"
    /\ LET s == PerceptronStep(w, examples[idx + 1])
       IN  /\ w' = s.w
           /\ count' = count + s.count
           /\ passUpd' = passUpd + s.updates
    /\ idx' = idx + 1
    /\ pc' = IF ForExhausted(idx', nBatches) THEN "while" ELSE "for"
    /\ UNCHANGED <<kind, examples, nExamples, batch_size, ver, nBatches,
                   losses, sumSq, lossSnap, gradient, gi, updLog, lastAcc,
                   verAtAcc, iterArg, itersSinceEval, firstRows, runIn,
                   runOut, predX, predOut, batchesDone, epochsRun>>

----------------------------------------------------------------------------
(* train of RegressionModel, DigitClassificationModel, LanguageIDModel *)

\* top of while True: losses = 0; dataset.iterate_once(self.batch_size)
EpochStart ==
    /\ kind # "Perceptron"
    /\ pc = "epoch"
    /\ losses' = 0
    /\ sumSq' = 0
    /\ iterArg' = batch_size
    /\ nBatches' = IterateOnce(batch_size, nExamples)
    /\ idx' = 0
    /\ passUpd' = 0
    /\ itersSinceEval' = itersSinceEval + 1
    /\ epochsRun' = epochsRun + 1
    \* a rejected batch size is an exception train does not handle
    /\ pc' = IF nBatches' < 0 THEN "crashed" ELSE "for"
    /\ UNCHANGED <<kind, w, examples, nExamples, batch_size, ver, count,
                   lossSnap, gradient, gi, updLog, lastAcc, verAtAcc,
                   firstRows, runIn, runOut, predX, predOut, batchesDone>>

\* loss = self.get_loss(x, y) on the next batch; losses += nn.as_scalar(loss).
\* The squared errors of the batch's examples are whatever the forward pass
\* and the labels make them: the parameters differ at every batch, so no
\* two batches share them.
BatchLoss ==
    /\ kind # "Perceptron"
    /\ pc = "for"
    /\ batch_size' = RunBatchSize(kind, batch_size, iterArg)
    /\ firstRows' = IF firstRows = 0 THEN iterArg ELSE firstRows
    /\ lossSnap' = ver
    /\ updLog' = <<>>
    /\ IF kind = "Regression"
       THEN \E errs \in [1..iterArg -> ErrValues] :
                /\ losses' = losses + SquareLossScalar(errs)
                /\ sumSq' = sumSq + SumSeq(errs)
       ELSE UNCHANGED <<losses, sumSq>>
    /\ pc' = "grad"
    /\ UNCHANGED <<kind, w, examples, nExamples, ver, idx, nBatches, count,
                   gradient, gi, lastAcc, verAtAcc, iterArg, itersSinceEval,
                   runIn, runOut, predX, predOut, passUpd, batchesDone,
                   epochsRun>>

\* gradient = nn.gradients(loss, origin)
TrainGradients ==
    /\ kind # "Perceptron"
    /\ pc = "grad"
    /\ gradient' = Gradients(lossSnap, Origin(kind))
    /\ gi' = 1
    /\ pc' = "upd"
    /\ UNCHANGED <<kind, w, examples, nExamples, batch_size, ver, idx,
                   nBatches, count, losses, sumSq, lossSnap, updLog, lastAcc,
                   verAtAcc, iterArg, itersSinceEval, firstRows, runIn,
                   runOut, predX, predOut, passUpd, batchesDone, epochsRun>>

\* origin[i].update(gradient[i], self.alpha), for the next i
TrainUpdate ==
    /\ kind # "Perceptron"
    /\ pc = "upd"
    /\ LET target == Origin(kind)[gi]
       IN  /\ ver' = [ver EXCEPT ![target] = @ + 1]
           /\ updLog' = Append(updLog, [target |-> target,
                                        grad |-> gradient[UpdateGradIndex(gi)],
                                        mult |-> Alpha])
    /\ passUpd' = passUpd + 1
    /\ IF gi < NumParams(kind)
       THEN /\ gi' = gi + 1
            /\ pc' = "upd"
            /\ UNCHANGED <<idx, batchesDone>>
       ELSE /\ gi' = 0
            /\ idx' = idx + 1
            /\ batchesDone' = batchesDone + 1
            /\ pc' = IF ForExhausted(idx', nBatches) THEN "check" ELSE "for"
    /\ UNCHANGED <<kind, w, examples, nExamples, batch_size, nBatches, count,
                   losses, sumSq, lossSnap, gradient, lastAcc, verAtAcc,
                   iterArg, itersSinceEval, firstRows, runIn, runOut, predX,
                   predOut, epochsRun>>

\* the if ...: break after the for loop
EpochCheck ==
    /\ kind # "Perceptron"
    /\ pc = "check"
    /\ \E acc \in AccValues :
        /\ IF kind = "Regression"
           THEN UNCHANGED <<lastAcc, verAtAcc>>
           ELSE lastAcc' = acc /\ verAtAcc' = ver
        /\ IF Converged(kind, count, losses, nExamples, acc)
           THEN pc' = "done"
           ELSE epochsRun < MaxEpochs /\ pc' = "epoch"
    /\ itersSinceEval' = 0
    /\ UNCHANGED <<kind, w, examples, nExamples, batch_size, ver, idx,
                   nBatches, count, losses, sumSq, lossSnap, gradient, gi,
                   updLog, iterArg, firstRows, runIn, runOut, predX, predOut,
                   passUpd, batchesDone, epochsRun>>

----------------------------------------------------------------------------
(* Specifications *)

TrainStep ==
    \/ PerceptronWhile
    \/ PerceptronVisit
    \/ EpochStart
    \/ BatchLoss
    \/ TrainGradients
    \/ TrainUpdate
    \/ EpochCheck

Next ==
    \/ \E r \in 1..MaxRows, L \in 1..MaxWordLen : Run(r, L)
    \/ \E r \in 1..MaxRows, L \in 1..MaxWordLen : GetLoss(r, L)
    \/ \E x \in Points : GetPrediction(x)
    \/ TrainCall
    \/ PerceptronWhile
    \/ PerceptronVisit
    \/ EpochStart
    \/ BatchLoss
    \/ TrainGradients
    \/ TrainUpdate
    \/ EpochCheck

Spec == Init /\ [][Next]_vars

\* a train call that has been entered keeps executing: the program is
\* single-threaded and synchronous
FairSpec == Spec /\ WF_vars(TrainStep)

----------------------------------------------------------------------------
(* Properties *)

InTrain == pc \in {"while", "for", "epoch", "grad", "upd", "check"}

\* weight vectors tried as separators of a dataset
SepCandidates == {<<a, b>> : a \in -2..2, b \in -2..2}

\* some weight vector classifies every example as get_prediction would
LinearlySeparable(ds) ==
    \E u \in SepCandidates :
        \A i \in 1..Len(ds) : get_prediction(u, ds[i].x) = ds[i].y

\* some weight vector puts every example strictly on its side
StrictlySeparable(ds) ==
    \E u \in SepCandidates :
        \A i \in 1..Len(ds) : ds[i].y * DotProduct(ds[i].x, u) > 0

AllMatch == \A i \in 1..Len(examples) : get_prediction(w, examples[i].x) = examples[i].y

\* C1 as stated: on every dataset that some weight vector classifies
\* correctly, the perceptron's train returns, with get_prediction equal to
\* the label of every example.
C1_TrainTerminatesSeparable ==
    (kind = "Perceptron" /\ InTrain /\ LinearlySeparable(examples))
        ~> (pc = "done" /\ AllMatch)

\* C1 amended: on every dataset that some weight vector separates strictly
\* (y * (x . u) > 0 for every example), from every initial weight vector,
\* the perceptron's train returns, with get_prediction equal to the label
\* of every example.
C1_TrainTerminatesStrictlySeparable ==
    (kind = "Perceptron" /\ InTrain /\ StrictlySeparable(examples))
        ~> (pc = "done" /\ AllMatch)

C1_Witness ==
    /\ kind = "Perceptron"
    /\ pc = "done"
    /\ Len(examples) = 2
    /\ StrictlySeparable(examples)
    /\ epochsRun >= 2
    /\ AllMatch

\* C2 as stated: when RegressionModel.train has returned, the mean loss per
\* example of its last epoch (the squared errors of all examples, halved as
\* SquareLoss halves them, over the number of examples) is below 0.02.
C2_ReturnedMeanLossBelowThreshold ==
    (kind = "Regression" /\ pc = "done") =>
        sumSq < 2 * LossThreshold * nExamples

\* C3: DigitClassificationModel.train has returned only after an accuracy
\* of at least 0.975 was reported, LanguageIDModel.train only after one of
\* at least 0.83, and the parameters are those the model had at that query.
C3_ReturnedAccuracyAtLeastThreshold ==
    (pc = "done" /\ kind \in {"Digit", "Language"}) =>
        /\ kind = "Digit" => lastAcc >= 975
        /\ kind = "Language" => lastAcc >= 830
        /\ verAtAcc = ver

C3_Witness ==
    /\ kind = "Digit"
    /\ pc = "done"
    /\ lastAcc = 975
    /\ epochsRun = 2
    /\ nBatches = 2

\* the output dimensions section 8 of the specification lists
StatedOutputDimension(k) ==
    CASE k = "Perceptron" -> 2
      [] k = "Regression" -> 1
      [] k = "Digit"      -> 10
      [] k = "Language"   -> 5

\* the output dimensions of the run methods
OutputDimension(k) ==
    CASE k = "Perceptron" -> 1
      [] k = "Regression" -> 1
      [] k = "Digit"      -> 10
      [] k = "Language"   -> 5

\* C4 as stated: the node run returns for a batch of batch_size rows has
\* shape (batch_size, d) with d = 2, 1, 10, 5 for the four models.
C4_RunShapeAsStated ==
    runIn # None => runOut.shape = <<runIn.rows, StatedOutputDimension(kind)>>

\* C4 amended: the node run returns for a batch of batch_size rows has shape
\* (batch_size, d) with d = 1 for PerceptronModel (one score per row), 1 for
\* RegressionModel, 10 for DigitClassificationModel and 5 for
\* LanguageIDModel, for every word length L >= 1.
C4_RunShape ==
    runIn # None => runOut.shape = <<runIn.rows, OutputDimension(kind)>>

C4_Witness ==
    /\ kind = "Language"
    /\ runIn = [rows |-> 2, len |-> 2]
    /\ runOut.shape = <<2, 5>>

\* C5 as stated: a run call changes no parameter and no other attribute of
\* the model, and run on the same input as the call before it, with no
\* train call in between, returns the same output.
C5_RunIsPure ==
    [][(\E r \in 1..MaxRows, L \in 1..MaxWordLen : Run(r, L)) =>
            /\ batch_size' = batch_size
            /\ ver' = ver
            /\ w' = w
            /\ (runIn' = runIn => runOut' = runOut)]_vars

\* C6: get_prediction(x) returns +1 exactly when the dot product of x and
\* the weights is >= 0 and -1 otherwise, never anything else, and leaves
\* the weights as they were.
C6_PredictionIsSignOfScore ==
    [][\A x \in Points : GetPrediction(x) =>
            /\ predOut' \in {1, -1}
            /\ (predOut' = 1) <=> (DotProduct(x, w) >= 0)
            /\ w' = w]_vars

C6_Witness ==
    /\ predX = <<1, 1>>
    /\ w = <<1, -1>>
    /\ predOut = 1

C8_TestOncePerEpochAtItsEnd ==
    /\ [](itersSinceEval \in {0, 1})
    /\ [](pc \in {"for", "grad", "upd", "check"} => itersSinceEval = 1)
    /\ [][(PerceptronWhile \/ EpochCheck) =>
            /\ itersSinceEval = 1 => idx = nBatches
            /\ itersSinceEval = 0 => kind = "Perceptron" /\ count = 1
            /\ (pc' = "done") <=>
                (CASE kind = "Perceptron" -> count = 0
                   [] kind = "Regression" -> losses < 2 * nExamples * LossScale
                   [] kind = "Digit"      -> lastAcc' >= 975
                   [] kind = "Language"   -> lastAcc' >= 830)
            /\ (pc' # "done") => (pc' \in {"epoch", "for", "while"})]_vars
    /\ [][pc' = "done" /\ pc # "done" => PerceptronWhile \/ EpochCheck]_vars

C8_Witness ==
    /\ kind = "Regression"
    /\ pc = "done"
    /\ epochsRun = 2
    /\ nBatches >= 2

\* C9 as stated: every iterate_once call made by the train of
\* RegressionModel and LanguageIDModel passes a positive batch size, equal
\* to the row count of the first input the model observed.
C9_IterateOncePositiveFirstRows ==
    (kind \in {"Regression", "Language"} /\ iterArg # -1) =>
        /\ iterArg > 0
        /\ iterArg = firstRows

\* C10: for every batch of the three networks' train, the gradients are
\* those of the parameter values the loss was computed from, which are the
\* values held before any update of the batch; every parameter is then
\* updated exactly once, the i-th with the i-th gradient and the
\* multiplier -0.01; and all updates are done before the next loss.
C10_BatchUpdatesInOrder ==
    kind # "Perceptron" =>
        /\ \A j \in 1..Len(updLog) :
              /\ updLog[j].target = j
              /\ updLog[j].grad.param = j
              /\ updLog[j].grad.snap = [i \in 1..NumParams(kind) |-> batchesDone -
                                          (IF pc = "upd" THEN 0 ELSE 1)]
              /\ updLog[j].mult = -1
        /\ pc = "grad" =>
              /\ lossSnap = ver
              /\ \A i \in 1..NumParams(kind) : ver[i] = batchesDone
        /\ pc = "upd" =>
              /\ Len(updLog) = gi - 1
              /\ \A i \in 1..NumParams(kind) :
                    ver[i] = batchesDone + (IF i < gi THEN 1 ELSE 0)
        /\ (pc \in {"for", "check"} /\ idx > 0) =>
              /\ Len(updLog) = NumParams(kind)
              /\ \A i \in 1..NumParams(kind) : ver[i] = batchesDone

C10_Witness ==
    /\ kind = "Language"
    /\ pc = "grad"
    /\ idx = 1
    /\ batchesDone = 1

====
